---- MODULE Spec2Model ----
(***************************************************************************)
(* Two pthreads programs of the repository, each as a state machine:       *)
(*                                                                         *)
(*   sellTickets.c   NUM_SELLERS threads decrement the global numTickets   *)
(*                   under the binary semaphore ticketsLock;               *)
(*   readerWriter.c  one Writer and one Reader exchange DATA_LENGTH chars  *)
(*                   through a ring of NUM_TOTAL_BUFFERS slots, paced by   *)
(*                   the counting semaphores emptyBuffers and fullBuffers. *)
(*                                                                         *)
(* One step of a thread is one access to shared memory or one semaphore    *)
(* call; purely local statements are folded into the neighbouring step.    *)
(* The library calls (pthread_create, pthread_join, sem_init) are taken at *)
(* their successful return.  The #define'd sizes are drawn in Init from    *)
(* bounded ranges, so that every property is checked for a family of       *)
(* builds rather than for one.                                             *)
(***************************************************************************)
EXTENDS Integers, Sequences, FiniteSets, TLC

\* ------------------------------------------------------------- bounds
\* Largest NUM_TICKETS and NUM_SELLERS a checked build is given.
MaxTickets == 3
MaxSellers == 3
\* Largest NUM_TOTAL_BUFFERS and DATA_LENGTH a checked build is given.
MaxBuffers == 3
MaxData == 3
\* The same two sizes for the runs with a second Writer or Reader.
MaxMultiBuffers == 2
MaxMultiData == 2
\* random_r results run over 0 .. MaxRand.
MaxRand == 1
\* How far outside the array an indeterminate index is taken to lie.
MaxStray == 1

VARIABLES
    \* ---- sellTickets.c
    nTickets,             \* NUM_TICKETS of the build
    nSellers,             \* NUM_SELLERS of the build
    numTickets,           \* static int numTickets
    ticketsLock,          \* value of the semaphore ticketsLock
    sellerPc,             \* where each SellTickets thread is
    done,                 \* SellTickets: bool done
    numSoldByThisThread,  \* SellTickets: int numSoldByThisThread
    observed,             \* the value of numTickets a seller read at its check
    soldLog,              \* the "(%d left)" values printed, in order
    mainPc,               \* where main is
    mainI,                \* main: int i
    \* ---- readerWriter.c
    nBuffers,             \* NUM_TOTAL_BUFFERS of the build
    nData,                \* DATA_LENGTH of the build
    emptyBuffers,         \* value of the semaphore emptyBuffers
    fullBuffers,          \* value of the semaphore fullBuffers
    buffers,              \* main: char buffers[NUM_TOTAL_BUFFERS]
    writerPc,             \* where the Writer thread is
    writerI,              \* Writer: int i
    writePt,              \* Writer: int writePt
    dataToWrite,          \* Writer: char dataToWrite
    readerPc,             \* where the Reader thread is
    readerI,              \* Reader: int i
    readPt,               \* Reader: int readPt
    rwMainPc,             \* where main is
    killed,               \* the process was ended by a memory fault
    writeLog,             \* the Writer's printf lines, <<index, char>>, in order
    readLog,              \* the Reader's printf lines, <<index, char>>, in order
    slotTag,              \* per slot: "junk", "full" (stored, unread) or "read"
    \* ---- readerWriter.c with a second thread running each routine
    writer2Pc,            \* where the second Writer thread is
    writer2I,             \* second Writer: int i
    writePt2,             \* second Writer: int writePt
    dataToWrite2,         \* second Writer: char dataToWrite
    reader2Pc,            \* where the second Reader thread is
    reader2I,             \* second Reader: int i
    readPt2               \* second Reader: int readPt

tvars == <<nTickets, nSellers, numTickets, ticketsLock, sellerPc, done,
           numSoldByThisThread, observed, soldLog, mainPc, mainI>>

bvars == <<nBuffers, nData, emptyBuffers, fullBuffers, buffers, writerPc,
           writerI, writePt, dataToWrite, readerPc, readerI, readPt, rwMainPc,
           killed, writeLog, readLog, slotTag, writer2Pc, writer2I, writePt2,
           dataToWrite2, reader2Pc, reader2I, readPt2>>

\* The locals of a second Writer and a second Reader.
xvars == <<writer2Pc, writer2I, writePt2, dataToWrite2, reader2Pc, reader2I,
           readPt2>>

vars == <<tvars, bvars>>

\* The seller threads of the build, indexed as main indexes threads + i.
Sellers == 0 .. (nSellers - 1)

\* A seller between sem_wait(&ticketsLock) and sem_post(&ticketsLock).
InCritical(s) == sellerPc[s] \in {"check", "sell", "count", "post"}

\* sem_init(&ticketsLock, 0, 1): the lock starts free.
TicketsLockInit == 1

RECURSIVE SumSold(_, _)
\* numSoldByThisThread summed over the sellers 0 .. n-1.
SumSold(f, n) == IF n = 0 THEN 0 ELSE f[n - 1] + SumSold(f, n - 1)

\* ---------------------------------------------------- readerWriter.c

\* The slots of the ring, indexed as sharedBuffer[] is.
Slots == 0 .. (nBuffers - 1)

\* What a char that was never assigned is shown as.
Indeterminate == -1

\* The values a read of a never-assigned char of main's stack can yield: a byte
\* no PrepareData produces, and one it does.
StackBytes == {0, 65}

\* The values the never-assigned int writePt can hold when the Writer first
\* uses it: any index of the array, and indices on either side of it.
StackInts == (0 - MaxStray) .. (nBuffers - 1 + MaxStray)

\* C's a % b for b > 0: the quotient truncates towards zero, so a negative a
\* gives a remainder in -(b-1) .. 0.
CRem(a, b) == IF a >= 0 THEN a % b ELSE 0 - ((0 - a) % b)

\* PrepareData: the char made from one random_r result.
PrepareData(result) == 65 + CRem(result, 25)

\* sem_init(&emptyBuffers, 0, NUM_TOTAL_BUFFERS).
EmptyBuffersInit == nBuffers

\* sem_init(&fullBuffers, 0, 0).
FullBuffersInit == 0

\* The Writer between sem_wait(pEmptyBuffers) and sem_post(pFullBuffers).
WriterMidPut == writerPc \in {"store", "post"}

\* The Reader between sem_wait(pFullBuffers) and sem_post(pEmptyBuffers).
ReaderMidTake == readerPc \in {"load", "post"}

\* The program as shipped starts one Writer and one Reader: no second thread.
NoSecondThreads ==
    /\ writer2Pc = "unborn"
    /\ writer2I = 0
    /\ writePt2 = 0
    /\ dataToWrite2 = 0
    /\ reader2Pc = "unborn"
    /\ reader2I = 0
    /\ readPt2 = 0

\* The reader/writer variables while the ticket program is the one running.
BuffersNotLoaded ==
    /\ NoSecondThreads
    /\ nBuffers = 1
    /\ nData = 0
    /\ emptyBuffers = 0
    /\ fullBuffers = 0
    /\ buffers = <<>>
    /\ writerPc = "unborn"
    /\ writerI = 0
    /\ writePt = 0
    /\ dataToWrite = 0
    /\ readerPc = "unborn"
    /\ readerI = 0
    /\ readPt = 0
    /\ rwMainPc = "none"
    /\ killed = FALSE
    /\ writeLog = <<>>
    /\ readLog = <<>>
    /\ slotTag = <<>>

\* The ticket variables while the reader/writer program is the one running.
TicketsNotLoaded ==
    /\ nTickets = 0
    /\ nSellers = 0
    /\ numTickets = 0
    /\ ticketsLock = 0
    /\ sellerPc = <<>>
    /\ done = <<>>
    /\ numSoldByThisThread = <<>>
    /\ observed = <<>>
    /\ soldLog = <<>>
    /\ mainPc = "none"
    /\ mainI = 0

\* ---------------------------------------------------- sellTickets.c

\* The program as loaded: numTickets holds NUM_TICKETS, no thread exists,
\* ticketsLock is zeroed static storage that main has yet to sem_init.
InitTickets ==
    /\ nTickets \in 0 .. MaxTickets
    /\ nSellers \in 1 .. MaxSellers
    /\ numTickets = nTickets
    /\ ticketsLock = 0
    /\ sellerPc = [s \in Sellers |-> "unborn"]
    /\ done = [s \in Sellers |-> FALSE]
    /\ numSoldByThisThread = [s \in Sellers |-> 0]
    /\ observed = [s \in Sellers |-> 0]
    /\ soldLog = <<>>
    /\ mainPc = "init"
    /\ mainI = 0
    /\ BuffersNotLoaded

\* main: the allocations and sem_init(&ticketsLock, 0, 1).
MainSemInit ==
    /\ mainPc = "init"
    /\ ticketsLock' = TicketsLockInit
    /\ mainPc' = "create"
    /\ mainI' = 0
    /\ UNCHANGED bvars
    /\ UNCHANGED <<nTickets, nSellers, numTickets, sellerPc, done,
                   numSoldByThisThread, observed, soldLog>>

\* main: one pass of the creating loop; thread i starts at SellTickets with
\* done = false and numSoldByThisThread = 0.
MainCreate ==
    /\ mainPc = "create"
    /\ mainI < nSellers
    /\ sellerPc' = [sellerPc EXCEPT ![mainI] = "loop"]
    /\ done' = [done EXCEPT ![mainI] = FALSE]
    /\ numSoldByThisThread' = [numSoldByThisThread EXCEPT ![mainI] = 0]
    /\ mainI' = mainI + 1
    /\ UNCHANGED bvars
    /\ UNCHANGED <<nTickets, nSellers, numTickets, ticketsLock, observed,
                   soldLog, mainPc>>

\* main: the creating loop ends; pthread_attr_destroy; the joining loop starts.
MainCreateEnd ==
    /\ mainPc = "create"
    /\ mainI = nSellers
    /\ mainPc' = "join"
    /\ mainI' = 0
    /\ UNCHANGED bvars
    /\ UNCHANGED <<nTickets, nSellers, numTickets, ticketsLock, sellerPc, done,
                   numSoldByThisThread, observed, soldLog>>

\* main: pthread_join(threads[i]) returns once thread i has exited.
MainJoin ==
    /\ mainPc = "join"
    /\ mainI < nSellers
    /\ sellerPc[mainI] = "exited"
    /\ mainI' = mainI + 1
    /\ UNCHANGED bvars
    /\ UNCHANGED <<nTickets, nSellers, numTickets, ticketsLock, sellerPc, done,
                   numSoldByThisThread, observed, soldLog, mainPc>>

\* main: after the last join, sem_destroy, the frees, "All done!".
MainDestroy ==
    /\ mainPc = "join"
    /\ mainI = nSellers
    /\ mainPc' = "done"
    /\ UNCHANGED bvars
    /\ UNCHANGED <<nTickets, nSellers, numTickets, ticketsLock, sellerPc, done,
                   numSoldByThisThread, observed, soldLog, mainI>>

\* SellTickets: the test of while (!done); the delay when it goes on, the
\* closing printf and pthread_exit when it does not.
SellerLoop(s) ==
    /\ sellerPc[s] = "loop"
    /\ sellerPc' = [sellerPc EXCEPT ![s] = IF done[s] THEN "exited" ELSE "wait"]
    /\ UNCHANGED bvars
    /\ UNCHANGED <<nTickets, nSellers, numTickets, ticketsLock, done,
                   numSoldByThisThread, observed, soldLog, mainPc, mainI>>

\* A seller that enters the critical section without taking the lock.
SellerWaitNoLock(s) ==
    /\ sellerPc[s] = "wait"
    /\ sellerPc' = [sellerPc EXCEPT ![s] = "check"]
    /\ UNCHANGED bvars
    /\ UNCHANGED <<nTickets, nSellers, numTickets, ticketsLock, done,
                   numSoldByThisThread, observed, soldLog, mainPc, mainI>>

\* SellTickets: sem_wait(&ticketsLock) blocks while the value is 0.
SellerWait(s) ==
    /\ sellerPc[s] = "wait"
    /\ ticketsLock > 0
    /\ ticketsLock' = ticketsLock - 1
    /\ sellerPc' = [sellerPc EXCEPT ![s] = "check"]
    /\ UNCHANGED bvars
    /\ UNCHANGED <<nTickets, nSellers, numTickets, done,
                   numSoldByThisThread, observed, soldLog, mainPc, mainI>>

\* A seller that takes the last ticket for gone: it tests numTickets <= 1.
SellerCheckOffByOne(s) ==
    /\ sellerPc[s] = "check"
    /\ observed' = [observed EXCEPT ![s] = numTickets]
    /\ IF numTickets <= 1
          THEN /\ done' = [done EXCEPT ![s] = TRUE]
               /\ sellerPc' = [sellerPc EXCEPT ![s] = "post"]
          ELSE /\ done' = done
               /\ sellerPc' = [sellerPc EXCEPT ![s] = "sell"]
    /\ UNCHANGED bvars
    /\ UNCHANGED <<nTickets, nSellers, numTickets, ticketsLock,
                   numSoldByThisThread, soldLog, mainPc, mainI>>

\* A seller that tests numTickets < 0 where numTickets == 0 is meant.
SellerCheckWrongTest(s) ==
    /\ sellerPc[s] = "check"
    /\ observed' = [observed EXCEPT ![s] = numTickets]
    /\ IF numTickets < 0
          THEN /\ done' = [done EXCEPT ![s] = TRUE]
               /\ sellerPc' = [sellerPc EXCEPT ![s] = "post"]
          ELSE /\ done' = done
               /\ sellerPc' = [sellerPc EXCEPT ![s] = "sell"]
    /\ UNCHANGED bvars
    /\ UNCHANGED <<nTickets, nSellers, numTickets, ticketsLock,
                   numSoldByThisThread, soldLog, mainPc, mainI>>

\* SellTickets: if (numTickets == 0) done = true; else go on to sell.
SellerCheck(s) ==
    /\ sellerPc[s] = "check"
    /\ observed' = [observed EXCEPT ![s] = numTickets]
    /\ IF numTickets = 0
          THEN /\ done' = [done EXCEPT ![s] = TRUE]
               /\ sellerPc' = [sellerPc EXCEPT ![s] = "post"]
          ELSE /\ done' = done
               /\ sellerPc' = [sellerPc EXCEPT ![s] = "sell"]
    /\ UNCHANGED bvars
    /\ UNCHANGED <<nTickets, nSellers, numTickets, ticketsLock,
                   numSoldByThisThread, soldLog, mainPc, mainI>>

\* SellTickets: numTickets--.
SellerSell(s) ==
    /\ sellerPc[s] = "sell"
    /\ numTickets' = numTickets - 1
    /\ sellerPc' = [sellerPc EXCEPT ![s] = "count"]
    /\ UNCHANGED bvars
    /\ UNCHANGED <<nTickets, nSellers, ticketsLock, done, numSoldByThisThread,
                   observed, soldLog, mainPc, mainI>>

\* A seller that prints its sale without counting it as its own.
SellerCountForgotten(s) ==
    /\ sellerPc[s] = "count"
    /\ soldLog' = Append(soldLog, numTickets)
    /\ sellerPc' = [sellerPc EXCEPT ![s] = "post"]
    /\ UNCHANGED bvars
    /\ UNCHANGED <<nTickets, nSellers, numTickets, ticketsLock, done,
                   numSoldByThisThread, observed, mainPc, mainI>>

\* SellTickets: numSoldByThisThread++; the printf of numTickets as it is now.
SellerCount(s) ==
    /\ sellerPc[s] = "count"
    /\ numSoldByThisThread' =
           [numSoldByThisThread EXCEPT ![s] = numSoldByThisThread[s] + 1]
    /\ soldLog' = Append(soldLog, numTickets)
    /\ sellerPc' = [sellerPc EXCEPT ![s] = "post"]
    /\ UNCHANGED bvars
    /\ UNCHANGED <<nTickets, nSellers, numTickets, ticketsLock, done,
                   observed, mainPc, mainI>>

\* A seller that leaves the critical section without releasing the lock.
SellerPostForgotten(s) ==
    /\ sellerPc[s] = "post"
    /\ sellerPc' = [sellerPc EXCEPT ![s] = "loop"]
    /\ UNCHANGED bvars
    /\ UNCHANGED <<nTickets, nSellers, numTickets, ticketsLock, done,
                   numSoldByThisThread, observed, soldLog, mainPc, mainI>>

\* SellTickets: sem_post(&ticketsLock).
SellerPost(s) ==
    /\ sellerPc[s] = "post"
    /\ ticketsLock' = ticketsLock + 1
    /\ sellerPc' = [sellerPc EXCEPT ![s] = "loop"]
    /\ UNCHANGED bvars
    /\ UNCHANGED <<nTickets, nSellers, numTickets, done,
                   numSoldByThisThread, observed, soldLog, mainPc, mainI>>

\* One step of seller s.
SellerStep(s) ==
    \/ SellerLoop(s)
    \/ SellerWait(s)
    \/ SellerCheck(s)
    \/ SellerSell(s)
    \/ SellerCount(s)
    \/ SellerPost(s)

\* One step of main.
MainStep ==
    \/ MainSemInit
    \/ MainCreate
    \/ MainCreateEnd
    \/ MainJoin
    \/ MainDestroy

NextTickets ==
    \/ MainSemInit
    \/ MainCreate
    \/ MainCreateEnd
    \/ MainJoin
    \/ MainDestroy
    \/ \E s \in Sellers : SellerLoop(s)
    \/ \E s \in Sellers : SellerWait(s)
    \/ \E s \in Sellers : SellerCheck(s)
    \/ \E s \in Sellers : SellerSell(s)
    \/ \E s \in Sellers : SellerCount(s)
    \/ \E s \in Sellers : SellerPost(s)

SpecTickets == InitTickets /\ [][NextTickets]_vars

\* The scheduler lets every thread that can take a step take one eventually.
FairSpecTickets ==
    /\ SpecTickets
    /\ WF_vars(MainStep)
    /\ \A s \in 0 .. (MaxSellers - 1) : WF_vars(s \in Sellers /\ SellerStep(s))

\* ---------------------------------------------------- readerWriter.c

\* main after both sem_init calls: every slot empty, no thread yet.
InitBuffers ==
    /\ nBuffers \in 1 .. MaxBuffers
    /\ nData \in 0 .. MaxData
    /\ emptyBuffers = EmptyBuffersInit
    /\ fullBuffers = FullBuffersInit
    /\ buffers = [i \in Slots |-> Indeterminate]
    /\ writerPc = "unborn"
    /\ writerI = 0
    /\ writePt = 0
    /\ dataToWrite = 0
    /\ readerPc = "unborn"
    /\ readerI = 0
    /\ readPt = 0
    /\ rwMainPc = "createWriter"
    /\ killed = FALSE
    /\ writeLog = <<>>
    /\ readLog = <<>>
    /\ slotTag = [i \in Slots |-> "junk"]
    /\ NoSecondThreads
    /\ TicketsNotLoaded

\* main: pthread_create(&writer, ...).  The Writer's frame comes into being:
\* i is set by the for statement, writePt is declared without a value and
\* holds whatever the stack held.
RWMainCreateWriter ==
    /\ ~killed
    /\ rwMainPc = "createWriter"
    /\ writerPc' = "loop"
    /\ writerI' = 0
    /\ writePt' \in StackInts
    /\ rwMainPc' = "createReader"
    /\ UNCHANGED tvars
    /\ UNCHANGED xvars
    /\ UNCHANGED <<nBuffers, nData, emptyBuffers, fullBuffers, buffers,
                   dataToWrite, readerPc, readerI, readPt, killed, writeLog,
                   readLog, slotTag>>

\* main: pthread_create(&reader, ...); the Reader starts with readPt = 0.
RWMainCreateReader ==
    /\ ~killed
    /\ rwMainPc = "createReader"
    /\ readerPc' = "loop"
    /\ readerI' = 0
    /\ readPt' = 0
    /\ rwMainPc' = "joinWriter"
    /\ UNCHANGED tvars
    /\ UNCHANGED xvars
    /\ UNCHANGED <<nBuffers, nData, emptyBuffers, fullBuffers, buffers,
                   writerPc, writerI, writePt, dataToWrite, killed, writeLog,
                   readLog, slotTag>>

\* main: pthread_join(writer, ...) returns once the Writer has exited.
RWMainJoinWriter ==
    /\ ~killed
    /\ rwMainPc = "joinWriter"
    /\ writerPc = "exited"
    /\ rwMainPc' = "joinReader"
    /\ UNCHANGED tvars
    /\ UNCHANGED xvars
    /\ UNCHANGED <<nBuffers, nData, emptyBuffers, fullBuffers, buffers,
                   writerPc, writerI, writePt, dataToWrite, readerPc, readerI,
                   readPt, killed, writeLog, readLog, slotTag>>

\* A main that goes on to sem_destroy without waiting for the Reader.
RWMainJoinReaderNoWait ==
    /\ ~killed
    /\ rwMainPc = "joinReader"
    /\ rwMainPc' = "destroy"
    /\ UNCHANGED tvars
    /\ UNCHANGED xvars
    /\ UNCHANGED <<nBuffers, nData, emptyBuffers, fullBuffers, buffers,
                   writerPc, writerI, writePt, dataToWrite, readerPc, readerI,
                   readPt, killed, writeLog, readLog, slotTag>>

\* main: pthread_join(reader, ...) returns once the Reader has exited.
RWMainJoinReader ==
    /\ ~killed
    /\ rwMainPc = "joinReader"
    /\ readerPc = "exited"
    /\ rwMainPc' = "destroy"
    /\ UNCHANGED tvars
    /\ UNCHANGED xvars
    /\ UNCHANGED <<nBuffers, nData, emptyBuffers, fullBuffers, buffers,
                   writerPc, writerI, writePt, dataToWrite, readerPc, readerI,
                   readPt, killed, writeLog, readLog, slotTag>>

\* main: sem_destroy of both semaphores, the frees, "All Done!".
RWMainDestroy ==
    /\ ~killed
    /\ rwMainPc = "destroy"
    /\ rwMainPc' = "done"
    /\ UNCHANGED tvars
    /\ UNCHANGED xvars
    /\ UNCHANGED <<nBuffers, nData, emptyBuffers, fullBuffers, buffers,
                   writerPc, writerI, writePt, dataToWrite, readerPc, readerI,
                   readPt, killed, writeLog, readLog, slotTag>>

\* Writer: the test i < DATA_LENGTH; PrepareData when it holds, pthread_exit
\* when it does not.
WriterLoop ==
    /\ ~killed
    /\ writerPc = "loop"
    /\ IF writerI < nData
          THEN /\ \E result \in 0 .. MaxRand :
                      dataToWrite' = PrepareData(result)
               /\ writerPc' = "wait"
          ELSE /\ dataToWrite' = dataToWrite
               /\ writerPc' = "exited"
    /\ UNCHANGED tvars
    /\ UNCHANGED xvars
    /\ UNCHANGED <<nBuffers, nData, emptyBuffers, fullBuffers, buffers,
                   writerI, writePt, readerPc, readerI, readPt, rwMainPc,
                   killed, writeLog, readLog, slotTag>>

\* A Writer that goes on to store without waiting for an empty buffer.
WriterWaitNoBlock ==
    /\ ~killed
    /\ writerPc = "wait"
    /\ writerPc' = "store"
    /\ UNCHANGED tvars
    /\ UNCHANGED xvars
    /\ UNCHANGED <<nBuffers, nData, emptyBuffers, fullBuffers, buffers,
                   writerI, writePt, dataToWrite, readerPc, readerI, readPt,
                   rwMainPc, killed, writeLog, readLog, slotTag>>

\* Writer: sem_wait(data->pEmptyBuffers) blocks while the value is 0.
WriterWait ==
    /\ ~killed
    /\ writerPc = "wait"
    /\ emptyBuffers > 0
    /\ emptyBuffers' = emptyBuffers - 1
    /\ writerPc' = "store"
    /\ UNCHANGED tvars
    /\ UNCHANGED xvars
    /\ UNCHANGED <<nBuffers, nData, fullBuffers, buffers, writerI, writePt,
                   dataToWrite, readerPc, readerI, readPt, rwMainPc, killed,
                   writeLog, readLog, slotTag>>

\* Writer: data->sharedBuffer[writePt] = dataToWrite; the printf; the advance
\* of writePt.  With writePt inside the array the slot takes the value.  With
\* writePt outside it the store goes to memory that is not the array: either
\* the address is mapped and the array is left as it was, or it is not and
\* the process is ended there.
WriterStore ==
    /\ ~killed
    /\ writerPc = "store"
    /\ \/ /\ writePt \in Slots
          /\ buffers' = [buffers EXCEPT ![writePt] = dataToWrite]
          /\ slotTag' = [slotTag EXCEPT ![writePt] = "full"]
          /\ writeLog' = Append(writeLog, <<writePt, dataToWrite>>)
          /\ writePt' = CRem(writePt + 1, nBuffers)
          /\ writerPc' = "post"
          /\ killed' = killed
       \/ /\ writePt \notin Slots
          /\ writeLog' = Append(writeLog, <<writePt, dataToWrite>>)
          /\ writePt' = CRem(writePt + 1, nBuffers)
          /\ writerPc' = "post"
          /\ UNCHANGED <<buffers, slotTag, killed>>
       \/ /\ writePt \notin Slots
          /\ killed' = TRUE
          /\ UNCHANGED <<buffers, slotTag, writeLog, writePt, writerPc>>
    /\ UNCHANGED tvars
    /\ UNCHANGED xvars
    /\ UNCHANGED <<nBuffers, nData, emptyBuffers, fullBuffers, writerI,
                   dataToWrite, readerPc, readerI, readPt, rwMainPc, readLog>>

\* A Writer that ends its iteration without signalling the full buffer.
WriterPostForgotten ==
    /\ ~killed
    /\ writerPc = "post"
    /\ writerI' = writerI + 1
    /\ writerPc' = "loop"
    /\ UNCHANGED tvars
    /\ UNCHANGED xvars
    /\ UNCHANGED <<nBuffers, nData, emptyBuffers, fullBuffers, buffers,
                   writePt, dataToWrite, readerPc, readerI, readPt, rwMainPc,
                   killed, writeLog, readLog, slotTag>>

\* Writer: sem_post(data->pFullBuffers); i++.
WriterPost ==
    /\ ~killed
    /\ writerPc = "post"
    /\ fullBuffers' = fullBuffers + 1
    /\ writerI' = writerI + 1
    /\ writerPc' = "loop"
    /\ UNCHANGED tvars
    /\ UNCHANGED xvars
    /\ UNCHANGED <<nBuffers, nData, emptyBuffers, buffers, writePt,
                   dataToWrite, readerPc, readerI, readPt, rwMainPc, killed,
                   writeLog, readLog, slotTag>>

\* Reader: the test i < DATA_LENGTH; pthread_exit when it fails.
ReaderLoop ==
    /\ ~killed
    /\ readerPc = "loop"
    /\ readerPc' = IF readerI < nData THEN "wait" ELSE "exited"
    /\ UNCHANGED tvars
    /\ UNCHANGED xvars
    /\ UNCHANGED <<nBuffers, nData, emptyBuffers, fullBuffers, buffers,
                   writerPc, writerI, writePt, dataToWrite, readerI, readPt,
                   rwMainPc, killed, writeLog, readLog, slotTag>>

\* Reader: sem_wait(data->pFullBuffers) blocks while the value is 0.
ReaderWait ==
    /\ ~killed
    /\ readerPc = "wait"
    /\ fullBuffers > 0
    /\ fullBuffers' = fullBuffers - 1
    /\ readerPc' = "load"
    /\ UNCHANGED tvars
    /\ UNCHANGED xvars
    /\ UNCHANGED <<nBuffers, nData, emptyBuffers, buffers, writerPc, writerI,
                   writePt, dataToWrite, readerI, readPt, rwMainPc, killed,
                   writeLog, readLog, slotTag>>

\* Reader: dataToRead = data->sharedBuffer[readPt]; the printf; the advance of
\* readPt.  A slot that was never stored to yields whatever the stack held.
ReaderLoad ==
    /\ ~killed
    /\ readerPc = "load"
    /\ \E dataToRead \in (IF buffers[readPt] = Indeterminate
                             THEN StackBytes ELSE {buffers[readPt]}) :
           readLog' = Append(readLog, <<readPt, dataToRead>>)
    /\ slotTag' = [slotTag EXCEPT
                      ![readPt] = IF @ = "full" THEN "read" ELSE @]
    /\ readPt' = (readPt + 1) % nBuffers
    /\ readerPc' = "post"
    /\ UNCHANGED tvars
    /\ UNCHANGED xvars
    /\ UNCHANGED <<nBuffers, nData, emptyBuffers, fullBuffers, buffers,
                   writerPc, writerI, writePt, dataToWrite, readerI, rwMainPc,
                   killed, writeLog>>

\* A Reader that ends its iteration without signalling the empty buffer.
ReaderPostForgotten ==
    /\ ~killed
    /\ readerPc = "post"
    /\ readerI' = readerI + 1
    /\ readerPc' = "loop"
    /\ UNCHANGED tvars
    /\ UNCHANGED xvars
    /\ UNCHANGED <<nBuffers, nData, emptyBuffers, fullBuffers, buffers,
                   writerPc, writerI, writePt, dataToWrite, readPt, rwMainPc,
                   killed, writeLog, readLog, slotTag>>

\* Reader: sem_post(data->pEmptyBuffers); ProcessData; i++.
ReaderPost ==
    /\ ~killed
    /\ readerPc = "post"
    /\ emptyBuffers' = emptyBuffers + 1
    /\ readerI' = readerI + 1
    /\ readerPc' = "loop"
    /\ UNCHANGED tvars
    /\ UNCHANGED xvars
    /\ UNCHANGED <<nBuffers, nData, fullBuffers, buffers, writerPc, writerI,
                   writePt, dataToWrite, readPt, rwMainPc, killed, writeLog,
                   readLog, slotTag>>

\* One step of the Writer thread.
WriterStep == WriterLoop \/ WriterWait \/ WriterStore \/ WriterPost

\* One step of the Reader thread.
ReaderStep == ReaderLoop \/ ReaderWait \/ ReaderLoad \/ ReaderPost

\* One step of main.
RWMainStep ==
    \/ RWMainCreateWriter
    \/ RWMainCreateReader
    \/ RWMainJoinWriter
    \/ RWMainJoinReader
    \/ RWMainDestroy

NextBuffers ==
    \/ RWMainCreateWriter
    \/ RWMainCreateReader
    \/ RWMainJoinWriter
    \/ RWMainJoinReader
    \/ RWMainDestroy
    \/ WriterLoop
    \/ WriterWait
    \/ WriterStore
    \/ WriterPost
    \/ ReaderLoop
    \/ ReaderWait
    \/ ReaderLoad
    \/ ReaderPost

SpecBuffers == InitBuffers /\ [][NextBuffers]_vars

\* The scheduler lets every thread that can take a step take one eventually.
FairSpecBuffers ==
    /\ SpecBuffers
    /\ WF_vars(RWMainStep)
    /\ WF_vars(WriterStep)
    /\ WF_vars(ReaderStep)

\* ------------------------- readerWriter.c, several Writers or Readers

\* The Writer and Reader routines with a second thread running one or both
\* of them against the same sharedBuffer, emptyBuffers and fullBuffers: the
\* state once the threads have been created as main creates its two.  Every
\* Writer has its own never-assigned writePt, every Reader its own readPt = 0.
InitMulti ==
    /\ nBuffers \in 1 .. MaxMultiBuffers
    /\ nData \in 0 .. MaxMultiData
    /\ emptyBuffers = EmptyBuffersInit
    /\ fullBuffers = FullBuffersInit
    /\ buffers = [i \in Slots |-> Indeterminate]
    /\ writerPc = "loop"
    /\ writerI = 0
    /\ writePt \in StackInts
    /\ dataToWrite = 0
    /\ readerPc = "loop"
    /\ readerI = 0
    /\ readPt = 0
    /\ writer2Pc \in {"loop", "unborn"}
    /\ reader2Pc \in {"loop", "unborn"}
    /\ writer2Pc # reader2Pc
    /\ writer2I = 0
    /\ writePt2 \in (IF writer2Pc = "loop" THEN StackInts ELSE {0})
    /\ dataToWrite2 = 0
    /\ reader2I = 0
    /\ readPt2 = 0
    /\ rwMainPc = "joinWriter"
    /\ killed = FALSE
    /\ writeLog = <<>>
    /\ readLog = <<>>
    /\ slotTag = [i \in Slots |-> "junk"]
    /\ TicketsNotLoaded

\* Second Writer, the same routine: the test i < DATA_LENGTH; PrepareData when it holds, pthread_exit
\* when it does not.
Writer2Loop ==
    /\ ~killed
    /\ writer2Pc = "loop"
    /\ IF writer2I < nData
          THEN /\ \E result \in 0 .. MaxRand :
                      dataToWrite2' = PrepareData(result)
               /\ writer2Pc' = "wait"
          ELSE /\ dataToWrite2' = dataToWrite2
               /\ writer2Pc' = "exited"
    /\ UNCHANGED tvars
    /\ UNCHANGED <<writerPc, writerI, writePt, dataToWrite, reader2Pc,
                   reader2I, readPt2>>
    /\ UNCHANGED <<nBuffers, nData, emptyBuffers, fullBuffers, buffers,
                   writer2I, writePt2, readerPc, readerI, readPt, rwMainPc,
                   killed, writeLog, readLog, slotTag>>

\* Second Writer, the same routine: sem_wait(data->pEmptyBuffers) blocks while the value is 0.
Writer2Wait ==
    /\ ~killed
    /\ writer2Pc = "wait"
    /\ emptyBuffers > 0
    /\ emptyBuffers' = emptyBuffers - 1
    /\ writer2Pc' = "store"
    /\ UNCHANGED tvars
    /\ UNCHANGED <<writerPc, writerI, writePt, dataToWrite, reader2Pc,
                   reader2I, readPt2>>
    /\ UNCHANGED <<nBuffers, nData, fullBuffers, buffers, writer2I, writePt2,
                   dataToWrite2, readerPc, readerI, readPt, rwMainPc, killed,
                   writeLog, readLog, slotTag>>

\* Second Writer, the same routine: data->sharedBuffer[writePt2] = dataToWrite2; the printf; the advance
\* of writePt2.  With writePt2 inside the array the slot takes the value.  With
\* writePt2 outside it the store goes to memory that is not the array: either
\* the address is mapped and the array is left as it was, or it is not and
\* the process is ended there.
Writer2Store ==
    /\ ~killed
    /\ writer2Pc = "store"
    /\ \/ /\ writePt2 \in Slots
          /\ buffers' = [buffers EXCEPT ![writePt2] = dataToWrite2]
          /\ slotTag' = [slotTag EXCEPT ![writePt2] = "full"]
          /\ writeLog' = Append(writeLog, <<writePt2, dataToWrite2>>)
          /\ writePt2' = CRem(writePt2 + 1, nBuffers)
          /\ writer2Pc' = "post"
          /\ killed' = killed
       \/ /\ writePt2 \notin Slots
          /\ writeLog' = Append(writeLog, <<writePt2, dataToWrite2>>)
          /\ writePt2' = CRem(writePt2 + 1, nBuffers)
          /\ writer2Pc' = "post"
          /\ UNCHANGED <<buffers, slotTag, killed>>
       \/ /\ writePt2 \notin Slots
          /\ killed' = TRUE
          /\ UNCHANGED <<buffers, slotTag, writeLog, writePt2, writer2Pc>>
    /\ UNCHANGED tvars
    /\ UNCHANGED <<writerPc, writerI, writePt, dataToWrite, reader2Pc,
                   reader2I, readPt2>>
    /\ UNCHANGED <<nBuffers, nData, emptyBuffers, fullBuffers, writer2I,
                   dataToWrite2, readerPc, readerI, readPt, rwMainPc, readLog>>

\* Second Writer, the same routine: sem_post(data->pFullBuffers); i++.
Writer2Post ==
    /\ ~killed
    /\ writer2Pc = "post"
    /\ fullBuffers' = fullBuffers + 1
    /\ writer2I' = writer2I + 1
    /\ writer2Pc' = "loop"
    /\ UNCHANGED tvars
    /\ UNCHANGED <<writerPc, writerI, writePt, dataToWrite, reader2Pc,
                   reader2I, readPt2>>
    /\ UNCHANGED <<nBuffers, nData, emptyBuffers, buffers, writePt2,
                   dataToWrite2, readerPc, readerI, readPt, rwMainPc, killed,
                   writeLog, readLog, slotTag>>

\* Second Reader, the same routine: the test i < DATA_LENGTH; pthread_exit when it fails.
Reader2Loop ==
    /\ ~killed
    /\ reader2Pc = "loop"
    /\ reader2Pc' = IF reader2I < nData THEN "wait" ELSE "exited"
    /\ UNCHANGED tvars
    /\ UNCHANGED <<readerPc, readerI, readPt, writer2Pc, writer2I,
                   writePt2, dataToWrite2>>
    /\ UNCHANGED <<nBuffers, nData, emptyBuffers, fullBuffers, buffers,
                   writerPc, writerI, writePt, dataToWrite, reader2I, readPt2,
                   rwMainPc, killed, writeLog, readLog, slotTag>>

\* Second Reader, the same routine: sem_wait(data->pFullBuffers) blocks while the value is 0.
Reader2Wait ==
    /\ ~killed
    /\ reader2Pc = "wait"
    /\ fullBuffers > 0
    /\ fullBuffers' = fullBuffers - 1
    /\ reader2Pc' = "load"
    /\ UNCHANGED tvars
    /\ UNCHANGED <<readerPc, readerI, readPt, writer2Pc, writer2I,
                   writePt2, dataToWrite2>>
    /\ UNCHANGED <<nBuffers, nData, emptyBuffers, buffers, writerPc, writerI,
                   writePt, dataToWrite, reader2I, readPt2, rwMainPc, killed,
                   writeLog, readLog, slotTag>>

\* Second Reader, the same routine: dataToRead = data->sharedBuffer[readPt2]; the printf; the advance of
\* readPt2.  A slot that was never stored to yields whatever the stack held.
Reader2Load ==
    /\ ~killed
    /\ reader2Pc = "load"
    /\ \E dataToRead \in (IF buffers[readPt2] = Indeterminate
                             THEN StackBytes ELSE {buffers[readPt2]}) :
           readLog' = Append(readLog, <<readPt2, dataToRead>>)
    /\ slotTag' = [slotTag EXCEPT
                      ![readPt2] = IF @ = "full" THEN "read" ELSE @]
    /\ readPt2' = (readPt2 + 1) % nBuffers
    /\ reader2Pc' = "post"
    /\ UNCHANGED tvars
    /\ UNCHANGED <<readerPc, readerI, readPt, writer2Pc, writer2I,
                   writePt2, dataToWrite2>>
    /\ UNCHANGED <<nBuffers, nData, emptyBuffers, fullBuffers, buffers,
                   writerPc, writerI, writePt, dataToWrite, reader2I, rwMainPc,
                   killed, writeLog>>

\* Second Reader, the same routine: sem_post(data->pEmptyBuffers); ProcessData; i++.
Reader2Post ==
    /\ ~killed
    /\ reader2Pc = "post"
    /\ emptyBuffers' = emptyBuffers + 1
    /\ reader2I' = reader2I + 1
    /\ reader2Pc' = "loop"
    /\ UNCHANGED tvars
    /\ UNCHANGED <<readerPc, readerI, readPt, writer2Pc, writer2I,
                   writePt2, dataToWrite2>>
    /\ UNCHANGED <<nBuffers, nData, fullBuffers, buffers, writerPc, writerI,
                   writePt, dataToWrite, readPt2, rwMainPc, killed, writeLog,
                   readLog, slotTag>>

NextMulti ==
    \/ WriterLoop
    \/ WriterWait
    \/ WriterStore
    \/ WriterPost
    \/ ReaderLoop
    \/ ReaderWait
    \/ ReaderLoad
    \/ ReaderPost
    \/ Writer2Loop
    \/ Writer2Wait
    \/ Writer2Store
    \/ Writer2Post
    \/ Reader2Loop
    \/ Reader2Wait
    \/ Reader2Load
    \/ Reader2Post

SpecMulti == InitMulti /\ [][NextMulti]_vars

\* ------------------------------------------- properties: sellTickets.c

\* Every seller thread has left SellTickets.
AllExited == \A s \in Sellers : sellerPc[s] = "exited"

\* main is past its last pthread_join.
AllJoined ==
    \/ mainPc = "done"
    \/ mainPc = "join" /\ mainI = nSellers

\* C2: numTickets is never negative and never increases from one state to
\* the next, under every interleaving of the sellers.
NumTicketsNonNegativeNonIncreasing ==
    /\ numTickets >= 0
    /\ [][numTickets' >= 0 /\ numTickets' <= numTickets]_vars

\* C2, its case: the last ticket has gone while two sellers that have each
\* sold before are still competing for the lock.
NumTicketsWitness ==
    /\ numTickets = 0
    /\ \E s, t \in Sellers :
          /\ s # t
          /\ numSoldByThisThread[s] >= 1
          /\ numSoldByThisThread[t] >= 1
          /\ sellerPc[s] = "wait"
          /\ sellerPc[t] = "wait"

\* C3: once every seller has terminated, the sellers' numSoldByThisThread
\* add up to NUM_TICKETS, none of them is negative, and numTickets is 0.
SoldSumsToTotalAtExit ==
    AllExited =>
        /\ SumSold(numSoldByThisThread, nSellers) = nTickets
        /\ \A s \in Sellers : numSoldByThisThread[s] >= 0
        /\ numTickets = 0

\* C3, its case: a finished run in which several sellers shared several
\* tickets.
SoldSumsWitness ==
    /\ AllExited
    /\ nTickets >= 2
    /\ \E s, t \in Sellers :
          s # t /\ numSoldByThisThread[s] >= 1 /\ numSoldByThisThread[t] >= 1

\* C4: at most one seller is between sem_wait and sem_post, a seller there
\* holds the lock (its value is 0), and numTickets still has the value the
\* seller checked when that seller comes to decrement it.
CheckAndDecrementAtomic ==
    /\ Cardinality({s \in Sellers : InCritical(s)}) <= 1
    /\ \A s \in Sellers : InCritical(s) => ticketsLock = 0
    /\ \A s \in Sellers :
          sellerPc[s] = "sell" => (numTickets = observed[s] /\ numTickets > 0)

\* C4, its case: one seller stands between its check and its decrement
\* while another, which has sold before, waits for the lock.
CheckAndDecrementWitness ==
    \E s, t \in Sellers :
        /\ s # t
        /\ sellerPc[s] = "sell"
        /\ sellerPc[t] = "wait"
        /\ numSoldByThisThread[t] >= 1

\* C10: under fair scheduling every seller eventually sees numTickets == 0
\* and exits, and main gets past its last join.
SellersEventuallyJoined ==
    <>(/\ AllJoined
       /\ \A s \in Sellers :
             sellerPc[s] = "exited" /\ done[s] /\ observed[s] = 0)

\* C10, its case: main has finished a run in which sellers had to wait for
\* one another and tickets were sold.
SellersJoinedWitness ==
    /\ mainPc = "done"
    /\ AllExited
    /\ nSellers >= 2
    /\ nTickets >= 1
    /\ \A s \in Sellers : done[s]

\* No seller is between sem_wait(&ticketsLock) and sem_post(&ticketsLock).
LockFree == \A s \in Sellers : ~InCritical(s)

\* C11: a seller leaves its loop only when numTickets is 0, numTickets stays
\* 0 once it is 0, every change of numTickets is a decrement by one made by a
\* seller that then owes one count, and a seller's numSoldByThisThread grows
\* by one exactly when it pays that count and never otherwise.
NoEarlyExitNoDoubleCount ==
    [][/\ \A s \in Sellers :
             (sellerPc[s] # "exited" /\ sellerPc'[s] = "exited")
                 => numTickets = 0
       /\ numTickets = 0 => numTickets' = 0
       /\ numTickets' # numTickets =>
             \E s \in Sellers :
                 /\ sellerPc[s] = "sell"
                 /\ sellerPc'[s] = "count"
                 /\ numTickets' = numTickets - 1
       /\ \A s \in Sellers :
             /\ sellerPc'[s] = "count" => sellerPc[s] \in {"sell", "count"}
             /\ sellerPc[s] = "count" => sellerPc'[s] \in {"count", "post"}
             /\ numSoldByThisThread'[s] = numSoldByThisThread[s]
                    + (IF sellerPc[s] = "count" /\ sellerPc'[s] = "post"
                          THEN 1 ELSE 0)]_vars

\* C11, its case: one seller has exited after selling while another that has
\* sold too is still running.
NoEarlyExitWitness ==
    \E s, t \in Sellers :
        /\ s # t
        /\ sellerPc[s] = "exited"
        /\ numSoldByThisThread[s] >= 1
        /\ sellerPc[t] \notin {"exited", "unborn"}
        /\ numSoldByThisThread[t] >= 1

\* C12: whenever no seller is inside its critical section, the sellers'
\* numSoldByThisThread add up to NUM_TICKETS - numTickets.
SoldSumWhenLockFree ==
    LockFree =>
        SumSold(numSoldByThisThread, nSellers) = nTickets - numTickets

\* C12, its case: the lock is free in the middle of a run, tickets sold by
\* two sellers and tickets left.
SoldSumLockFreeWitness ==
    /\ LockFree
    /\ ticketsLock = 1
    /\ numTickets >= 1
    /\ \E s, t \in Sellers :
          s # t /\ numSoldByThisThread[s] >= 1 /\ numSoldByThisThread[t] >= 1

\* What C15 says of every state of a build with NUM_TICKETS = 0.
NothingToSell ==
    /\ numTickets = 0
    /\ soldLog = <<>>
    /\ \A s \in Sellers :
          /\ numSoldByThisThread[s] = 0
          /\ sellerPc[s] \notin {"sell", "count"}
          /\ sellerPc[s] \in {"wait", "check"} => ~done[s]
          /\ sellerPc[s] \in {"post", "exited"} => done[s]

\* C15: with NUM_TICKETS = 0 every seller's first pass through the critical
\* section finds numTickets == 0, decrements nothing and sets done; no seller
\* makes a second pass, each ends with numSoldByThisThread = 0, and
\* numTickets is 0 throughout.
ZeroTicketsSellNothing ==
    /\ nTickets = 0 => NothingToSell
    /\ [][nTickets = 0 =>
             /\ NothingToSell'
             /\ \A s \in Sellers :
                   (sellerPc[s] = "check" /\ sellerPc'[s] # "check")
                       => (done'[s] /\ sellerPc'[s] = "post")]_vars

\* C15, its case: a build with no tickets and several sellers has run to
\* the end.
ZeroTicketsWitness ==
    /\ nTickets = 0
    /\ nSellers >= 2
    /\ AllExited
    /\ mainPc = "done"

\* C18: the values printed by successful sales are NUM_TICKETS-1,
\* NUM_TICKETS-2, ... in this order, each once, and down to 0 once every
\* seller has exited.
SoldLogCountsDown ==
    /\ \A k \in 1 .. Len(soldLog) : soldLog[k] = nTickets - k
    /\ AllExited => Len(soldLog) = nTickets

\* C18, its case: a finished run of several sellers whose last printed value
\* is 0 after at least one other.
SoldLogWitness ==
    /\ AllExited
    /\ nSellers >= 2
    /\ Len(soldLog) >= 2
    /\ soldLog[Len(soldLog)] = 0
    /\ mainPc = "join"

\* ------------------------------------------- properties: readerWriter.c

\* The Writer has passed its sem_wait this many times.
WritesStarted == writerI + (IF WriterMidPut THEN 1 ELSE 0)

\* The Reader has passed its sem_wait this many times.
ReadsStarted == readerI + (IF ReaderMidTake THEN 1 ELSE 0)

\* This step is the Writer's store (it prints one line).
IsStore == Len(writeLog') = Len(writeLog) + 1

\* This step is the Reader's load (it prints one line).
IsLoad == Len(readLog') = Len(readLog) + 1

\* Both threads have run their loops to the end.
BothExited == writerPc = "exited" /\ readerPc = "exited"

\* C1: the k-th value the Reader reads is the k-th value the Writer wrote,
\* and after a full run the Reader has read exactly DATA_LENGTH values.
FifoDelivery ==
    /\ \A k \in 1 .. Len(readLog) :
          k <= Len(writeLog) /\ readLog[k][2] = writeLog[k][2]
    /\ BothExited => Len(readLog) = nData

\* C5: a store into slot i finds the slot's previous value already read, and
\* the writes started never exceed the reads completed plus the capacity.
NoOverwriteOfUnread ==
    [][/\ (IsStore /\ writePt \in Slots) => slotTag[writePt] # "full"
       /\ WritesStarted' <= readerI' + nBuffers']_vars

\* C6: a load from slot readPt finds a value the Writer stored and the Reader
\* has not read, the reads started never exceed the writes completed, and the
\* Reader cannot pass its sem_wait while no stored, unread value exists.
NoUnderrun ==
    [][/\ IsLoad => slotTag[readPt] = "full"
       /\ ReadsStarted' <= writerI'
       /\ (readerPc' = "wait" /\ \A i \in Slots' : slotTag'[i] # "full")
              => fullBuffers' = 0]_vars

\* C7 as stated: in every reachable state emptyBuffers + fullBuffers is the
\* capacity.
PermitSumAlwaysCapacity == emptyBuffers + fullBuffers = nBuffers

\* C7 as amended: in every reachable state emptyBuffers + fullBuffers is the
\* capacity less the number of threads between their sem_wait and sem_post.
PermitSumWithHolders ==
    emptyBuffers + fullBuffers
        + (IF WriterMidPut THEN 1 ELSE 0)
        + (IF ReaderMidTake THEN 1 ELSE 0) = nBuffers

\* C7, its case: both threads are between their sem_wait and their sem_post,
\* and the sum is two short of the capacity.
PermitSumWitness ==
    /\ WriterMidPut
    /\ ReaderMidTake
    /\ emptyBuffers + fullBuffers = nBuffers - 2

\* C8: whenever neither thread is between its sem_wait and its sem_post,
\* emptyBuffers + fullBuffers is the capacity; before any thread exists
\* emptyBuffers is the capacity and fullBuffers is 0.
PermitSumWhenQuiescent ==
    /\ (~WriterMidPut /\ ~ReaderMidTake)
           => emptyBuffers + fullBuffers = nBuffers
    /\ rwMainPc = "createWriter"
           => (emptyBuffers = nBuffers /\ fullBuffers = 0)

\* C8, its case: a quiescent state in the middle of a run, some slots taken
\* and some free, the Reader having been round its loop.
PermitSumQuiescentWitness ==
    /\ ~WriterMidPut
    /\ ~ReaderMidTake
    /\ emptyBuffers >= 1
    /\ fullBuffers >= 1
    /\ readerI >= 1
    /\ writerPc = "wait"
    /\ readerPc = "wait"

\* C9: under fair scheduling the Writer and the Reader each complete exactly
\* DATA_LENGTH iterations and exit, and the two are never both blocked.
BothEventuallyFinish ==
    /\ <>(BothExited /\ writerI = nData /\ readerI = nData)
    /\ []~(/\ writerPc = "wait" /\ emptyBuffers = 0
           /\ readerPc = "wait" /\ fullBuffers = 0)

\* C13: main reaches sem_destroy only from the return of its second
\* pthread_join, both threads have exited by then, and once the semaphores
\* are destroyed neither their values nor the threads change again.
DestroyAfterBothExited ==
    [][/\ (rwMainPc # "destroy" /\ rwMainPc' = "destroy")
             => (rwMainPc = "joinReader" /\ BothExited)
       /\ rwMainPc' = "done" => (rwMainPc \in {"destroy", "done"} /\ BothExited')
       /\ rwMainPc = "done" =>
             UNCHANGED <<emptyBuffers, fullBuffers, writerPc, readerPc>>]_vars

\* C13, its case: main has destroyed the semaphores after a run in which
\* data went through the ring.
DestroyWitness ==
    /\ rwMainPc = "done"
    /\ nData >= 2
    /\ Len(readLog) = nData
    /\ Len(writeLog) = nData

\* C14: with one slot the accesses alternate (the Writer's (k+1)-th store
\* follows the Reader's k-th completed read, the Reader's k-th load follows
\* the Writer's k-th store) and the values observed are the values produced.
CapacityOneAlternates ==
    nBuffers = 1 =>
        /\ Len(writeLog) <= readerI + 1
        /\ Len(readLog) <= Len(writeLog)
        /\ \A k \in 1 .. Len(readLog) : readLog[k][2] = writeLog[k][2]

\* C17: the Writer's k-th store and the Reader's k-th load both go to slot
\* (k-1) mod NUM_TOTAL_BUFFERS.
CursorsCountFromZero ==
    /\ \A k \in 1 .. Len(writeLog) : writeLog[k][1] = (k - 1) % nBuffers
    /\ \A k \in 1 .. Len(readLog) : readLog[k][1] = (k - 1) % nBuffers

\* C19: the Writer is never about to store into the slot the Reader is about
\* to load from.
NeverSameSlotAtOnce ==
    ~(writerPc = "store" /\ readerPc = "load" /\ writePt = readPt)

\* ---------------- properties: readerWriter.c, several Writers or Readers

\* Passes of sem_wait(pEmptyBuffers) by all Writers together.
AllWritesStarted ==
    writerI + writer2I
        + (IF writerPc \in {"store", "post"} THEN 1 ELSE 0)
        + (IF writer2Pc \in {"store", "post"} THEN 1 ELSE 0)

\* Passes of sem_wait(pFullBuffers) by all Readers together.
AllReadsStarted ==
    readerI + reader2I
        + (IF readerPc \in {"load", "post"} THEN 1 ELSE 0)
        + (IF reader2Pc \in {"load", "post"} THEN 1 ELSE 0)

\* C16 as stated: with a second Writer or a second Reader on the same
\* buffer and semaphores, no store goes into a slot whose value is unread
\* (none is overwritten or lost) and no load finds a value already read.
MultiNoOverwriteNoDoubleRead ==
    [][/\ (IsStore /\ writeLog'[Len(writeLog')][1] \in Slots)
             => slotTag[writeLog'[Len(writeLog')][1]] # "full"
       /\ IsLoad => slotTag[readLog'[Len(readLog')][1]] # "read"]_vars

\* C16 as amended: with a second Writer or a second Reader the semaphores
\* still bound the traffic: the stores started never exceed the loads
\* completed plus the capacity, and the loads started never exceed the
\* stores completed.
MultiPermitsBoundTraffic ==
    /\ AllWritesStarted <= readerI + reader2I + nBuffers
    /\ AllReadsStarted <= writerI + writer2I
    /\ emptyBuffers >= 0
    /\ fullBuffers >= 0

\* C16, its case: two threads of the same routine are between their sem_wait
\* and their sem_post at once, after traffic has gone through.
MultiWitness ==
    \/ /\ writerPc = "store"
       /\ writer2Pc = "store"
       /\ readerI >= 1
    \/ /\ readerPc = "load"
       /\ reader2Pc = "load"
       /\ writerI >= 2

====
